---- MODULE Spec2Model ----
(***************************************************************************)
(* A model of the twee-v3 parser (CorvusPrudens/twee-v3).                  *)
(*                                                                         *)
(* A &str is a sequence of one-character strings.  A nom IResult is a      *)
(* record [kind, rest, out] whose kind is "Ok", "Err" (nom::Err::Error),   *)
(* "Incomplete" (nom::Err::Incomplete) or "Panic" (the Rust call panics).  *)
(* An Option is a sequence of length 0 (None) or 1 (Some).                 *)
(*                                                                         *)
(* Spec        parse_story / Story::try_from on documents built from a     *)
(*             pool of blocks, one loop iteration per step.                *)
(* SpecTitle, SpecLink, SpecEscape, SpecPassage, SpecLinks, SpecSplit,     *)
(* SpecDelimited, SpecContent, SpecNodes, SpecBorrowed                     *)
(*             one parser function applied to every input over a small     *)
(*             alphabet.                                                   *)
(* SpecOpeners parse_story on documents of one passage whose content is    *)
(*             any short text over brackets and line breaks.               *)
(***************************************************************************)
EXTENDS Naturals, Integers, Sequences, FiniteSets, TLC

VARIABLES
    original,   \* parse_story: the whole document
    input,      \* parse_story: the remaining input of the block loop
    pc,         \* "Scanning" | "Done" | "Failed" | "Panicked" | "call" | "return"
    title,      \* parse_story: Option<&str>, the raw story title
    start,      \* parse_story: Option<String>, the start name read from StoryData
    passages,   \* parse_story: HashMap<String, Passage<&str>>
    story,      \* Option<Story<&str>>: the value parse_story returns
    fin,        \* the argument of the function a function specification applies
    fout        \* its result

vars == <<original, input, pc, title, start, passages, story, fin, fout>>

----------------------------------------------------------------------------
(* Characters and string helpers *)

BS == "\\"
LF == "\n"
CR == "\r"
TAB == "\t"
QUOTE == "\""

None == <<>>
Some(v) == <<v>>

Drop(s, n) == SubSeq(s, n + 1, Len(s))
Take(s, n) == SubSeq(s, 1, n)
StartsWith(s, p) == Len(s) >= Len(p) /\ SubSeq(s, 1, Len(p)) = p

Ok(rest, out) == [kind |-> "Ok", rest |-> rest, out |-> out]
Fail(kind) == [kind |-> kind, rest |-> <<>>, out |-> <<>>]

\* str::find / FindSubstring: the 0-based offset of the first occurrence of
\* pat in s at or after offset from, relative to from; -1 for None.
RECURSIVE FindAt(_, _, _, _)
FindAt(s, pat, from, i) ==
    IF i + Len(pat) > Len(s) THEN -1
    ELSE IF SubSeq(s, i + 1, i + Len(pat)) = pat THEN i - from
    ELSE FindAt(s, pat, from, i + 1)

find_substring(s, from, pat) == FindAt(s, pat, from, from)

\* str::find with a set of characters, same conventions.
RECURSIVE FindCharAt(_, _, _, _)
FindCharAt(s, chars, from, i) ==
    IF i + 1 > Len(s) THEN -1
    ELSE IF s[i + 1] \in chars THEN i - from
    ELSE FindCharAt(s, chars, from, i + 1)

find_chars(s, from, chars) == FindCharAt(s, chars, from, from)

----------------------------------------------------------------------------
(* nom primitives *)

\* nom::bytes::complete::tag
tag(t, i) == IF StartsWith(i, t) THEN Ok(Drop(i, Len(t)), t) ELSE Fail("Err")

\* nom::bytes::streaming::tag: a proper prefix of the tag is Incomplete.
tag_streaming(t, i) ==
    LET n == IF Len(i) < Len(t) THEN Len(i) ELSE Len(t)
    IN  IF SubSeq(i, 1, n) # SubSeq(t, 1, n) THEN Fail("Err")
        ELSE IF Len(i) >= Len(t) THEN Ok(Drop(i, Len(t)), t)
        ELSE Fail("Incomplete")

\* nom::character::complete::line_ending: "\n" or "\r\n".
line_ending(i) ==
    IF StartsWith(i, <<LF>>) THEN Ok(Drop(i, 1), <<LF>>)
    ELSE IF StartsWith(i, <<CR, LF>>) THEN Ok(Drop(i, 2), <<CR, LF>>)
    ELSE Fail("Err")

\* The offset of the first character at or after offset i that is not in chars.
RECURSIVE SkipChars(_, _, _)
SkipChars(s, i, chars) ==
    IF i + 1 <= Len(s) /\ s[i + 1] \in chars THEN SkipChars(s, i + 1, chars) ELSE i

\* nom::character::complete::space0 and multispace0 (never fail).
space0(i) == LET n == SkipChars(i, 0, {" ", TAB}) IN Ok(Drop(i, n), Take(i, n))
multispace0(i) == LET n == SkipChars(i, 0, {" ", TAB, CR, LF}) IN Ok(Drop(i, n), Take(i, n))

\* nom::character::streaming::not_line_ending
not_line_ending_streaming(i) ==
    LET index == find_chars(i, 0, {CR, LF})
    IN  IF index = -1 THEN Fail("Incomplete")
        ELSE IF i[index + 1] = CR
             THEN IF index + 2 > Len(i) THEN Fail("Incomplete")
                  ELSE IF i[index + 2] # LF THEN Fail("Err")
                  ELSE Ok(Drop(i, index), Take(i, index))
             ELSE Ok(Drop(i, index), Take(i, index))

\* preceded(char('\\'), anychar)
parse_escaped_char(i) ==
    IF Len(i) >= 2 /\ i[1] = BS THEN Ok(Drop(i, 2), i[2]) ELSE Fail("Err")

\* many1_count(alt((parse_escaped_char, none_of(stops)))) from offset i: the
\* offset at which the repetition stops.  A backslash that is the last
\* character is no escape (anychar fails) and is taken by none_of.
RECURSIVE EscapedRun(_, _, _)
EscapedRun(s, i, stops) ==
    IF i + 2 <= Len(s) /\ s[i + 1] = BS THEN EscapedRun(s, i + 2, stops)
    ELSE IF i + 1 <= Len(s) /\ s[i + 1] \notin stops THEN EscapedRun(s, i + 1, stops)
    ELSE i

\* The same repetition without the parse_escaped_char alternative.
RECURSIVE PlainRun(_, _, _)
PlainRun(s, i, stops) ==
    IF i + 1 <= Len(s) /\ s[i + 1] \notin stops THEN PlainRun(s, i + 1, stops)
    ELSE i

----------------------------------------------------------------------------
(* src/src/parser/passage.rs: the passage header *)

WordStops == {" ", LF, CR, "[", "{"}

\* A mutant of parse_word: escapes are not recognised.
parse_word_unescaped(s, i) == PlainRun(s, i, WordStops)

\* parse_word at offset i of s: the offset after the word (i when none).
parse_word(s, i) == EscapedRun(s, i, WordStops)

\* separated_list1(tag(" "), parse_word) from offset i, one word already
\* taken: the separator is given back when no word follows it.
RECURSIVE title_block(_, _)
title_block(s, i) ==
    IF i + 1 <= Len(s) /\ s[i + 1] = " " /\ parse_word(s, i + 1) > i + 1
    THEN title_block(s, parse_word(s, i + 1))
    ELSE i

\* recognize(separated_list1(..)): w is the offset after the first word.
parse_title_words(i, w) ==
    IF w = 0 THEN Fail("Err") ELSE Ok(Drop(i, title_block(i, w)), Take(i, title_block(i, w)))

\* preceded(tag(":: "), title_block)
parse_title_tag(t) ==
    IF t.kind # "Ok" THEN t ELSE parse_title_words(t.rest, parse_word(t.rest, 0))

parse_title(i) == parse_title_tag(tag(<<":", ":", " ">>, i))

----------------------------------------------------------------------------
(* src/src/utils.rs *)

\* escaped_transform(none_of("\\"), '\\', anychar) from offset index: every
\* other character is copied, a backslash is dropped and the character after
\* it copied; a backslash with nothing after it is an error.
RECURSIVE escaped_transform(_, _, _)
escaped_transform(s, index, res) ==
    IF index >= Len(s) THEN Ok(<<>>, res)
    ELSE IF s[index + 1] # BS THEN escaped_transform(s, index + 1, Append(res, s[index + 1]))
    ELSE IF index + 1 >= Len(s) THEN Fail("Err")
    ELSE escaped_transform(s, index + 2, Append(res, s[index + 2]))

escape_replace(i) == escaped_transform(i, 0, <<>>)

\* The Cow the function returns: owned |-> TRUE for Cow::Owned(replaced),
\* FALSE for Cow::Borrowed(input).
escape_string_content(i) ==
    IF \E k \in 1..Len(i) : i[k] = BS
    THEN LET r == escape_replace(i)
         IN  IF r.kind = "Ok" THEN [owned |-> TRUE, s |-> r.out]
             ELSE [owned |-> FALSE, s |-> i]
    ELSE [owned |-> FALSE, s |-> i]

\* The while loop of split_escaped: index after the last escaped separator found.
RECURSIVE split_escaped_skip(_, _, _)
split_escaped_skip(s, escaped_pat, index) ==
    LET position == find_substring(s, index, escaped_pat)
    IN  IF position # -1 THEN split_escaped_skip(s, escaped_pat, index + position + 2)
        ELSE index

split_escaped(i, pat) ==
    LET index == split_escaped_skip(i, <<BS>> \o pat, 0)
        position == find_substring(i, index, pat)
    IN  IF position # -1
        THEN Some(<<Take(i, index + position), Drop(i, index + position + Len(pat))>>)
        ELSE None

\* until_link1 with the loop left after the first escaped opener: the text
\* ends right behind it instead of running on to the next unescaped opener.
until_link1_loop_stop_after_escape(s, index) ==
    LET escaped == find_substring(s, index, <<BS, "[", "[">>)
        position == find_substring(s, index, <<"[", "[">>)
    IN  IF escaped # -1
        THEN Ok(Drop(s, index + escaped + 3), Take(s, index + escaped + 3))
        ELSE IF position # -1
             THEN IF index + position = 0 THEN Fail("Err")
                  ELSE Ok(Drop(s, index + position), Take(s, index + position))
             ELSE Ok(<<>>, s)

RECURSIVE until_link1_loop(_, _)
until_link1_loop(s, index) ==
    LET escaped == find_substring(s, index, <<BS, "[", "[">>)
        position == find_substring(s, index, <<"[", "[">>)
    IN  IF escaped # -1 THEN until_link1_loop(s, index + escaped + 2)
        ELSE IF position # -1
             THEN IF index + position = 0 THEN Fail("Err")
                  ELSE Ok(Drop(s, index + position), Take(s, index + position))
             ELSE Ok(<<>>, s)

until_link1(i) == until_link1_loop(i, 0)

\* take_delimited_greedy(opening_char, closing_char): the while loop from
\* (index, bracket_counter).  &i[index..] panics when index is past the end,
\* which a backslash that is the last character causes (the missing character
\* after it counts as '\0', one byte).
\* A mutant of take_delimited_greedy: a backslash is skipped alone, so the
\* character after it still counts.
RECURSIVE take_delimited_loop_no_escape(_, _, _, _, _)
take_delimited_loop_no_escape(s, opening_char, closing_char, index, bracket_counter) ==
    IF index >= Len(s) THEN (IF bracket_counter = 0 THEN Ok(<<>>, s) ELSE Fail("Err"))
    ELSE IF s[index + 1] = opening_char
         THEN take_delimited_loop_no_escape(s, opening_char, closing_char, index + 1,
                                            bracket_counter + 1)
    ELSE IF s[index + 1] = closing_char
         THEN (IF bracket_counter = 1 THEN Ok(Drop(s, index + 1), Take(s, index + 1))
               ELSE take_delimited_loop_no_escape(s, opening_char, closing_char, index + 1,
                                                  bracket_counter - 1))
    ELSE take_delimited_loop_no_escape(s, opening_char, closing_char, index + 1,
                                       bracket_counter)

RECURSIVE take_delimited_loop(_, _, _, _, _)
take_delimited_loop(s, opening_char, closing_char, index, bracket_counter) ==
    IF index > Len(s) THEN Fail("Panic")
    ELSE LET n == find_chars(s, index, {opening_char, closing_char, BS})
             at == index + n
             c == s[at + 1]
             counter == IF c = BS THEN bracket_counter
                        ELSE IF c = opening_char THEN bracket_counter + 1
                        ELSE bracket_counter - 1
             next == IF c = BS THEN at + 2 ELSE at + 1
         IN  IF n = -1
             THEN IF bracket_counter = 0 THEN Ok(<<>>, s) ELSE Fail("Err")
             ELSE IF counter = 0 THEN Ok(Drop(s, next), Take(s, next))
             ELSE take_delimited_loop(s, opening_char, closing_char, next, counter)

take_delimited_greedy(opening_char, closing_char, i) ==
    IF Len(i) = 0 \/ i[1] # opening_char THEN Fail("Err")
    ELSE take_delimited_loop(i, opening_char, closing_char, 0, 0)

----------------------------------------------------------------------------
(* src/src/parser/passage.rs: content nodes *)

text_node(text) == [type |-> "Text", text |-> text, target |-> <<>>]
link_node(text, target) == [type |-> "Link", text |-> text, target |-> target]

map_text_node(r) == IF r.kind # "Ok" THEN r ELSE Ok(r.rest, text_node(r.out))

parse_text_node(i) == map_text_node(until_link1(i))

LinkStops == {LF, CR, "]"}

\* The or_else chain over the three separators.
link_of(link_content, piped, to_right, to_left) ==
    IF piped # None THEN link_node(piped[1][1], piped[1][2])
    ELSE IF to_right # None THEN link_node(to_right[1][1], to_right[1][2])
    ELSE IF to_left # None THEN link_node(to_left[1][2], to_left[1][1])
    ELSE link_node(link_content, link_content)

parse_link_close(link_content, close) ==
    IF close.kind # "Ok" THEN close
    ELSE Ok(close.rest,
            link_of(link_content,
                    split_escaped(link_content, <<"|">>),
                    split_escaped(link_content, <<"-", ">">>),
                    split_escaped(link_content, <<"<", "-">>)))

parse_link_content(i, n) ==
    IF n = 0 THEN Fail("Err")
    ELSE parse_link_close(Take(i, n), tag(<<"]", "]">>, Drop(i, n)))

\* delimited(tag("[["), parse_link_content, tag("]]"))
parse_link_open(open) ==
    IF open.kind # "Ok" THEN open
    ELSE parse_link_content(open.rest, EscapedRun(open.rest, 0, LinkStops))

parse_link_node(i) == parse_link_open(tag(<<"[", "[">>, i))

\* A mutant of parse_node: an opener that starts no link is kept as text.
parse_node_alt_text_fallback(text, i) ==
    IF text.kind # "Err" THEN text
    ELSE IF parse_link_node(i).kind = "Ok" THEN parse_link_node(i)
    ELSE Ok(<<>>, text_node(i))

\* alt((parse_text_node, parse_link_node))
parse_node_alt(text, i) == IF text.kind # "Err" THEN text ELSE parse_link_node(i)

parse_node(i) == parse_node_alt(parse_text_node(i), i)

----------------------------------------------------------------------------
(* src/src/parser/passage.rs: tags, metadata, content block, passage *)

TagStops == {" ", "]"}

\* parse_tag at offset i of s: the offset after the tag (i when none).
parse_tag(s, i) == EscapedRun(s, i, TagStops)

\* separated_list0(tag(" "), parse_tag) after a first tag that ended at offset i.
RECURSIVE each_tags(_, _, _)
each_tags(s, i, res) ==
    IF i + 1 <= Len(s) /\ s[i + 1] = " " /\ parse_tag(s, i + 1) > i + 1
    THEN each_tags(s, parse_tag(s, i + 1), Append(res, SubSeq(s, i + 2, parse_tag(s, i + 1))))
    ELSE [end |-> i, tags |-> res]

\* delimited(tag("["), each_tags, tag("]"))
parse_tags(i) ==
    IF ~StartsWith(i, <<"[">>) THEN Fail("Err")
    ELSE LET first == parse_tag(i, 1)
             list == IF first = 1 THEN [end |-> 1, tags |-> <<>>]
                     ELSE each_tags(i, first, <<SubSeq(i, 2, first)>>)
         IN  IF list.end + 1 <= Len(i) /\ i[list.end + 1] = "]"
             THEN Ok(Drop(i, list.end + 1), list.tags)
             ELSE Fail("Err")

\* src/src/parser/metadata.rs
parse_metadata(i) == take_delimited_greedy("{", "}", i)

find_content_block(i) ==
    LET crlf == find_substring(i, 0, <<CR, LF, ":", ":">>)
        lf == find_substring(i, 0, <<LF, ":", ":">>)
    IN  IF crlf # -1 THEN Ok(Drop(i, crlf), Take(i, crlf))
        ELSE IF lf # -1 THEN Ok(Drop(i, lf), Take(i, lf))
        ELSE Ok(<<>>, i)

\* str::trim_end_matches(&['\r', '\n'])
RECURSIVE trim_end_matches(_, _)
trim_end_matches(s, chars) ==
    IF Len(s) > 0 /\ s[Len(s)] \in chars THEN trim_end_matches(Take(s, Len(s) - 1), chars)
    ELSE s

\* The while loop of parse_passage over the content.
RECURSIVE parse_nodes(_, _)

parse_nodes_push(nodes, r) ==
    IF r.kind # "Ok" THEN r ELSE parse_nodes(r.rest, Append(nodes, r.out))

parse_nodes(content, nodes) ==
    IF content = <<>> THEN Ok(<<>>, nodes)
    ELSE parse_nodes_push(nodes, parse_node(content))

Passage_new(title_, tags, metadata, content) ==
    [title |-> title_, tags |-> tags, metadata |-> metadata, content |-> content]

\* nom::combinator::opt: Err::Error becomes None and nothing is consumed.
opt(r, i) ==
    IF r.kind = "Ok" THEN Ok(r.rest, Some(r.out))
    ELSE IF r.kind = "Err" THEN Ok(i, None)
    ELSE r

\* tags.unwrap_or_default()
unwrap_or_default(o) == IF o = None THEN <<>> ELSE o[1]

\* parse_passage, statement by statement; each step gets the results so far.
parse_passage_return(title_, tags, metadata, rest, nodes) ==
    IF nodes.kind # "Ok" THEN nodes
    ELSE Ok(rest, Passage_new(title_, unwrap_or_default(tags), metadata, nodes.out))

parse_passage_content(title_, tags, metadata, block) ==
    parse_passage_return(title_, tags, metadata, multispace0(block.rest).rest,
                         parse_nodes(trim_end_matches(block.out, {CR, LF}), <<>>))

parse_passage_eol(title_, tags, metadata, eol) ==
    IF eol.kind # "Ok" THEN eol
    ELSE parse_passage_content(title_, tags, metadata, find_content_block(eol.rest))

parse_passage_metadata(title_, tags, metadata) ==
    IF metadata.kind # "Ok" THEN metadata
    ELSE parse_passage_eol(title_, tags, metadata.out,
                           line_ending(space0(metadata.rest).rest))

parse_passage_space2(title_, tags, i) ==
    parse_passage_metadata(title_, tags, opt(parse_metadata(i), i))

parse_passage_tags(title_, tags) ==
    parse_passage_space2(title_, tags.out, space0(tags.rest).rest)

parse_passage_space1(title_, i) == parse_passage_tags(title_, opt(parse_tags(i), i))

parse_passage_title(t) ==
    IF t.kind # "Ok" THEN t ELSE parse_passage_space1(t.out, space0(t.rest).rest)

parse_passage(i) == parse_passage_title(parse_title(i))

----------------------------------------------------------------------------
(* serde_json::from_str(data) followed by .get("start").as_str(), for the JSON
   texts of this model: objects whose members are strings or unsigned
   integers, with the string escapes \" \\ \/ \n \r \t.  (Arrays, nested
   objects, true/false/null, other numbers and the escapes \b \f \u do not
   occur in the documents below.) *)

JsonWs == {" ", TAB, LF, CR}
Digits == {"0", "1", "2", "3", "4", "5", "6", "7", "8", "9"}
JsonBad == [ok |-> FALSE, end |-> 0, str |-> FALSE, val |-> <<>>]

\* The characters of a JSON string from offset i (after the opening quote).
RECURSIVE json_string(_, _, _)
json_string(s, i, acc) ==
    IF i + 1 > Len(s) THEN JsonBad
    ELSE IF s[i + 1] = QUOTE THEN [ok |-> TRUE, end |-> i + 1, str |-> TRUE, val |-> acc]
    ELSE IF s[i + 1] \in {LF, CR, TAB} THEN JsonBad
    ELSE IF s[i + 1] # BS THEN json_string(s, i + 1, Append(acc, s[i + 1]))
    ELSE IF i + 2 > Len(s) THEN JsonBad
    ELSE IF s[i + 2] \in {QUOTE, BS, "/"} THEN json_string(s, i + 2, Append(acc, s[i + 2]))
    ELSE IF s[i + 2] = "n" THEN json_string(s, i + 2, Append(acc, LF))
    ELSE IF s[i + 2] = "r" THEN json_string(s, i + 2, Append(acc, CR))
    ELSE IF s[i + 2] = "t" THEN json_string(s, i + 2, Append(acc, TAB))
    ELSE JsonBad

\* A member value at offset i: a string or an unsigned integer.
json_value(s, i) ==
    IF i + 1 > Len(s) THEN JsonBad
    ELSE IF s[i + 1] = QUOTE THEN json_string(s, i + 1, <<>>)
    ELSE IF s[i + 1] = "0" THEN [ok |-> TRUE, end |-> i + 1, str |-> FALSE, val |-> <<>>]
    ELSE IF s[i + 1] \in Digits
         THEN [ok |-> TRUE, end |-> SkipChars(s, i, Digits), str |-> FALSE, val |-> <<>>]
    ELSE JsonBad

JsonFail == [ok |-> FALSE, start |-> None]

\* .get("start").and_then(as_str) after one more member (a later duplicate
\* key replaces an earlier one).
json_start(start_, key, value) ==
    IF key.val # <<"s", "t", "a", "r", "t">> THEN start_
    ELSE IF value.str THEN Some(value.val) ELSE None

\* The members of an object from offset i (at a key), step by step.
RECURSIVE json_members(_, _, _)

json_member_next(s, next, found) ==
    IF next + 1 > Len(s) THEN JsonFail
    ELSE IF s[next + 1] = "," THEN json_members(s, SkipChars(s, next + 1, JsonWs), found)
    ELSE IF s[next + 1] = "}" /\ SkipChars(s, next + 1, JsonWs) = Len(s)
         THEN [ok |-> TRUE, start |-> found]
    ELSE JsonFail

json_member_value(s, start_, key, value) ==
    IF ~value.ok THEN JsonFail
    ELSE json_member_next(s, SkipChars(s, value.end, JsonWs), json_start(start_, key, value))

json_member_colon(s, start_, key, colon) ==
    IF colon + 1 > Len(s) \/ s[colon + 1] # ":" THEN JsonFail
    ELSE json_member_value(s, start_, key, json_value(s, SkipChars(s, colon + 1, JsonWs)))

json_member_key(s, start_, key) ==
    IF ~key.ok THEN JsonFail
    ELSE json_member_colon(s, start_, key, SkipChars(s, key.end, JsonWs))

json_members(s, i, start_) ==
    json_member_key(s, start_,
                    IF i + 1 <= Len(s) /\ s[i + 1] = QUOTE THEN json_string(s, i + 1, <<>>)
                    ELSE JsonBad)

serde_json_start(data) ==
    LET open == SkipChars(data, 0, JsonWs)
        first == SkipChars(data, open + 1, JsonWs)
    IN  IF open + 1 > Len(data) \/ data[open + 1] # "{" THEN JsonFail
        ELSE IF first + 1 <= Len(data) /\ data[first + 1] = "}"
             THEN [ok |-> SkipChars(data, first + 1, JsonWs) = Len(data), start |-> None]
        ELSE json_members(data, first, None)

----------------------------------------------------------------------------
(* src/src/parser/story.rs *)

STORY_TITLE == <<":", ":", " ", "S", "t", "o", "r", "y", "T", "i", "t", "l", "e">>
STORY_DATA == <<":", ":", " ", "S", "t", "o", "r", "y", "D", "a", "t", "a">>

\* pair(tag(header), line_ending) with the streaming tag
header_line(header, i) ==
    IF header.kind # "Ok" THEN header ELSE line_ending(header.rest)

parse_story_title_line(line) ==
    IF line.kind # "Ok" THEN line ELSE Ok(multispace0(line.rest).rest, line.out)

parse_story_title_header(eol) ==
    IF eol.kind # "Ok" THEN eol
    ELSE parse_story_title_line(not_line_ending_streaming(eol.rest))

parse_story_title(i) == parse_story_title_header(header_line(tag_streaming(STORY_TITLE, i), i))

\* serde_json::from_str(data).map_err(..)?, then the start field
parse_story_data_json(rest, dictionary) ==
    IF ~dictionary.ok THEN Fail("Err") ELSE Ok(rest, [start |-> dictionary.start])

parse_story_data_block(data) ==
    IF data.kind # "Ok" THEN data
    ELSE parse_story_data_json(multispace0(data.rest).rest, serde_json_start(data.out))

parse_story_data_header(eol) ==
    IF eol.kind # "Ok" THEN eol
    ELSE parse_story_data_block(take_delimited_greedy("{", "}", eol.rest))

parse_story_data(i) == parse_story_data_header(header_line(tag_streaming(STORY_DATA, i), i))

StoryBlock(variant, value) == [block |-> variant, value |-> value]

\* map(parser, StoryBlock::Variant)
map_block(r, variant) == IF r.kind = "Ok" THEN Ok(r.rest, StoryBlock(variant, r.out)) ELSE r

\* alt: the next alternative is tried only after nom::Err::Error.
alt2(first, second) == IF first.kind = "Err" THEN second ELSE first

parse_story_block(i) ==
    alt2(map_block(parse_story_title(i), "Title"),
         alt2(map_block(parse_story_data(i), "StoryData"),
              map_block(parse_passage(i), "Passage")))

----------------------------------------------------------------------------
(* src/src/lib.rs *)

\* enum TextBlock { Owned(String), Borrowed(Range<usize>) }: s is the owned
\* string, begin..end the byte range into the original buffer.
Owned(s) == [kind |-> "Owned", s |-> s, begin |-> 0, end |-> 0]
Borrowed(begin, end) == [kind |-> "Borrowed", s |-> <<>>, begin |-> begin, end |-> end]

\* A &str with its address: ptr is as_ptr(), s the characters.
Slice(ptr, s) == [ptr |-> ptr, s |-> s]

TextBlock_owned(s) == Owned(escape_string_content(s).s)

\* The None arm of TextBlock::borrowed: the range by pointer arithmetic, or
\* a copy when the substring does not lie in original.
borrowed_range(original_begin, original_end, substring_begin, substring_end, substring) ==
    IF substring_begin < original_begin \/ substring_end > original_end
    THEN Owned(substring)
    ELSE Borrowed(substring_begin - original_begin, substring_end - original_begin)

\* TextBlock::borrowed on two slices; escape_string_content hands back a new
\* string (Owned) or the substring unchanged (the None arm).
TextBlock_borrowed_at(original_, substring) ==
    IF escape_string_content(substring.s).owned
    THEN Owned(escape_string_content(substring.s).s)
    ELSE borrowed_range(original_.ptr, original_.ptr + Len(original_.s),
                        substring.ptr, substring.ptr + Len(substring.s), substring.s)

\* The offset of a slice of original_ with the characters of substring (the
\* first one: every such slice resolves to the same characters), or an
\* offset outside original_ when there is none.
Locate(original_, substring) ==
    IF find_substring(original_, 0, substring) = -1 THEN Len(original_) + 1
    ELSE find_substring(original_, 0, substring)

\* TextBlock::borrowed for a substring that parse_story sliced out of
\* original_.
TextBlock_borrowed(original_, substring) ==
    TextBlock_borrowed_at(Slice(0, original_), Slice(Locate(original_, substring), substring))

\* TextBlock::as_str: &original[r.clone()] for a borrowed block
as_str(block, original_) ==
    IF block.kind = "Owned" THEN block.s
    ELSE SubSeq(original_, block.begin + 1, block.end)

\* Option::map with TextBlock::borrowed, TextBlock::owned and as_str
map_borrowed(original_, o) ==
    IF o = None THEN None ELSE Some(TextBlock_borrowed(original_, o[1]))

map_owned(o) == IF o = None THEN None ELSE Some(TextBlock_owned(o[1]))

map_as_str(o, original_) == IF o = None THEN None ELSE Some(as_str(o[1], original_))

\* src/src/parser/story.rs
passage_as_str_to_blocks(original_, passage) ==
    LET B(x) == TextBlock_borrowed(original_, x)
        N(node) == IF node.type = "Text" THEN text_node(B(node.text))
                   ELSE link_node(B(node.text), B(node.target))
    IN  Passage_new(B(passage.title),
                    [k \in DOMAIN passage.tags |-> B(passage.tags[k])],
                    map_borrowed(original_, passage.metadata),
                    [k \in DOMAIN passage.content |-> N(passage.content[k])])

Story_new(content, title_, start_, passages_) ==
    [content |-> content, title |-> title_, start |-> start_, passages |-> passages_]

\* Passage<TextBlock>::as_borrowed, with Tag, Metadata and ContentNode::as_borrowed
Passage_as_borrowed(passage, original_) ==
    LET V(x) == as_str(x, original_)
        N(node) == IF node.type = "Text" THEN text_node(V(node.text))
                   ELSE link_node(V(node.text), V(node.target))
    IN  Passage_new(V(passage.title),
                    [k \in DOMAIN passage.tags |-> V(passage.tags[k])],
                    map_as_str(passage.metadata, original_),
                    [k \in DOMAIN passage.content |-> N(passage.content[k])])

Story_title(st) ==
    IF st.title = None THEN None ELSE Some(as_str(st.title[1], st.content))

Story_get_passage(st, name) ==
    IF name \in DOMAIN st.passages
    THEN Some(Passage_as_borrowed(st.passages[name], st.content))
    ELSE None

\* str::to_owned: a new String holding a copy of every byte.
to_owned(s) == [k \in 1..Len(s) |-> s[k]]

\* A mutant of Story::into_owned: the start name is not carried over.
Story_into_owned_no_start(st) ==
    [content |-> to_owned(st.content), title |-> st.title, start |-> None,
     passages |-> st.passages]

\* Story<&str>::into_owned
Story_into_owned(st) ==
    [content |-> to_owned(st.content), title |-> st.title, start |-> st.start,
     passages |-> st.passages]

\* Story::iter: the iterator holds the keys of the mapping not yet visited.
Story_iter(st) == DOMAIN st.passages

\* A mutant of Story::start: the start passage is never resolved.
Story_start_none(st) == None

Story_start(st) ==
    IF st.start = None THEN None
    ELSE Story_get_passage(st, as_str(st.start[1], st.content))

----------------------------------------------------------------------------
(* Inputs of the function specifications *)

RECURSIVE Strings(_, _)
Strings(alphabet, n) ==
    IF n = 0 THEN {<<>>}
    ELSE LET shorter == Strings(alphabet, n - 1)
         IN  shorter \cup {Append(s, c) : s \in {t \in shorter : Len(t) = n - 1}, c \in alphabet}

Idle ==
    /\ original = <<>> /\ input = <<>> /\ title = None /\ start = None
    /\ passages = <<>> /\ story = None

IdleUnchanged == UNCHANGED <<original, input, title, start, passages, story>>

----------------------------------------------------------------------------
(* Spec: parse_story, block by block *)

\* the StoryTitle block of the end-to-end example
B_Title ==
    <<":", ":", " ", "S", "t", "o", "r", "y", "T", "i", "t", "l", "e", LF, "T", "e", "s",
          "t", LF, LF>>

\* its StoryData block
B_Data ==
    <<":", ":", " ", "S", "t", "o", "r", "y", "D", "a", "t", "a", LF, "{", QUOTE, "s", "t",
          "a", "r", "t", QUOTE, ":", QUOTE, "S", "t", "a", "r", "t", QUOTE, "}", LF, LF>>

\* its passage
B_Start ==
    <<":", ":", " ", "S", "t", "a", "r", "t", LF, "H", "i", " ", "[", "[", "N", "e", "x",
          "t", "]", "]", LF>>

\* a passage whose title holds an escape: a\b
B_Esc ==
    <<":", ":", " ", "a", BS, "b", LF, "X", LF>>

\* a passage titled ab
B_Plain ==
    <<":", ":", " ", "a", "b", LF, "Y", LF>>

\* another passage titled ab, with a tag, metadata and a link
B_Tagged ==
    <<":", ":", " ", "a", "b", " ", "[", "t", "]", " ", "{", "m", "}", LF, "[", "[", "a",
          "|", "b", "]", "]", LF>>

\* a StoryData block with balanced braces that is no JSON
B_BadJson ==
    <<":", ":", " ", "S", "t", "o", "r", "y", "D", "a", "t", "a", LF, "{", "x", "}", LF>>

\* a StoryData block without a start field
B_NoStart ==
    <<":", ":", " ", "S", "t", "o", "r", "y", "D", "a", "t", "a", LF, "{", "}", LF>>

\* a StoryData block whose start is the JSON string "a\\b", i.e. a\b
B_DataEsc ==
    <<":", ":", " ", "S", "t", "o", "r", "y", "D", "a", "t", "a", LF, "{", QUOTE, "s", "t",
          "a", "r", "t", QUOTE, ":", QUOTE, "a", BS, BS, "b", QUOTE, "}", LF>>

\* a StoryTitle block whose title line has no line ending
B_TitleEof ==
    <<":", ":", " ", "S", "t", "o", "r", "y", "T", "i", "t", "l", "e", LF, "T">>

\* a header whose metadata block is open and ends in a backslash
B_Open ==
    <<":", ":", " ", "c", " ", "{", BS>>

\* text that starts no block
B_Junk ==
    <<"x", LF>>

\* a passage header with no body
B_Head ==
    <<":", ":", " ", "h", LF>>

\* a passage whose body holds an escaped bracket and ends in a backslash
B_Trail ==
    <<":", ":", " ", "d", LF, BS, "[", BS, LF>>

\* a StoryData block whose start field is a number
B_NumStart ==
    <<":", ":", " ", "S", "t", "o", "r", "y", "D", "a", "t", "a", LF, "{", QUOTE, "s", "t",
          "a", "r", "t", QUOTE, ":", "1", "}", LF>>

BlockPool ==
    {B_Title, B_Data, B_Start, B_Esc, B_Plain, B_Tagged, B_BadJson, B_NoStart,
     B_DataEsc, B_TitleEof, B_Open, B_Junk, B_Head, B_Trail, B_NumStart}

MaxBlocks == 3

\* The documents made of exactly n blocks of the pool.
RECURSIVE DocsOf(_)
DocsOf(n) == IF n = 0 THEN {<<>>} ELSE {d \o b : d \in DocsOf(n - 1), b \in BlockPool}

Documents == UNION {DocsOf(n) : n \in 0..MaxBlocks}

\* parse_story before its loop: title, start and passages are empty.
Init ==
    /\ original \in Documents
    /\ input = original
    /\ pc = "Scanning"
    /\ title = None
    /\ start = None
    /\ passages = <<>>
    /\ story = None
    /\ fin = <<>>
    /\ fout = Fail("None")

Parsing == pc = "Scanning" /\ input # <<>>

\* HashMap::insert
Insert(map, key, value) ==
    [k \in (DOMAIN map) \cup {key} |-> IF k = key THEN value ELSE map[k]]

\* The match on the block parse_story_block returned (r), one arm each.
TitleArm(r) ==
    /\ r.kind = "Ok"
    /\ r.out.block = "Title"
    /\ title' = Some(r.out.value)
    /\ input' = r.rest

\* A mutant of the StoryData arm: a block without a string start keeps the
\* start name of an earlier block.
StoryDataArm_keep_start(r) ==
    /\ r.kind = "Ok"
    /\ r.out.block = "StoryData"
    /\ start' = IF r.out.value.start = None THEN start ELSE r.out.value.start
    /\ input' = r.rest

StoryDataArm(r) ==
    /\ r.kind = "Ok"
    /\ r.out.block = "StoryData"
    /\ start' = r.out.value.start
    /\ input' = r.rest

\* A mutant of the Passage arm: the passage is stored but input = i is left out.
PassageArm_no_advance(r) ==
    /\ r.kind = "Ok"
    /\ r.out.block = "Passage"
    /\ passages' = Insert(passages, r.out.value.title, r.out.value)
    /\ input' = input

PassageArm(r) ==
    /\ r.kind = "Ok"
    /\ r.out.block = "Passage"
    /\ passages' = Insert(passages, r.out.value.title, r.out.value)
    /\ input' = r.rest

\* StoryBlock::Title(extracted_title) => title = Some(extracted_title)
BlockTitle ==
    /\ Parsing
    /\ TitleArm(parse_story_block(input))
    /\ UNCHANGED <<original, pc, start, passages, story, fin, fout>>

\* StoryBlock::StoryData(extracted_start) => start = extracted_start.start
BlockStoryData ==
    /\ Parsing
    /\ StoryDataArm(parse_story_block(input))
    /\ UNCHANGED <<original, pc, title, passages, story, fin, fout>>

\* StoryBlock::Passage(passage) => passages.insert(passage.title().to_string(), passage)
BlockPassage ==
    /\ Parsing
    /\ PassageArm(parse_story_block(input))
    /\ UNCHANGED <<original, pc, title, start, story, fin, fout>>

\* parse_story_block(input)? returns the error: nom::Err::Error or Incomplete
BlockError ==
    /\ Parsing
    /\ parse_story_block(input).kind \in {"Err", "Incomplete"}
    /\ pc' = "Failed"
    /\ UNCHANGED <<original, input, title, start, passages, story, fin, fout>>

\* parse_story_block(input) panics
BlockPanic ==
    /\ Parsing
    /\ parse_story_block(input).kind = "Panic"
    /\ pc' = "Panicked"
    /\ UNCHANGED <<original, input, title, start, passages, story, fin, fout>>

\* The loop ends: the TextBlocks are built and the Story returned.
Finish ==
    /\ pc = "Scanning"
    /\ input = <<>>
    /\ story' = Some(Story_new(original,
                               map_borrowed(original, title),
                               map_owned(start),
                               [k \in DOMAIN passages |->
                                   passage_as_str_to_blocks(original, passages[k])]))
    /\ pc' = "Done"
    /\ UNCHANGED <<original, input, title, start, passages, fin, fout>>

Next ==
    \/ BlockTitle
    \/ BlockStoryData
    \/ BlockPassage
    \/ BlockError
    \/ BlockPanic
    \/ Finish

Spec == Init /\ [][Next]_vars

\* The text a TextBlock built from the slice s exposes through as_str.
Decoded(s) == as_str(TextBlock_borrowed(original, s), original)

\* The story parse_story returned (defined once pc = "Done").
TheStory == story[1]

\* C1: after a successful parse every key of the passage mapping equals the
\* title its passage exposes through the public view, so that
\* get_passage(p.title()) returns p for every stored passage p.
C1_KeyIsPublicTitle ==
    pc = "Done" =>
        \A k \in DOMAIN TheStory.passages :
            /\ k = as_str(TheStory.passages[k].title, TheStory.content)
            /\ Story_get_passage(TheStory,
                                 as_str(TheStory.passages[k].title, TheStory.content))
                   = Some(Passage_as_borrowed(TheStory.passages[k], TheStory.content))

\* A StoryData block at the head of i whose braces are balanced but whose
\* content is no JSON value.
MalformedStoryData(i) ==
    /\ header_line(tag_streaming(STORY_DATA, i), i).kind = "Ok"
    /\ take_delimited_greedy("{", "}", header_line(tag_streaming(STORY_DATA, i), i).rest).kind
           = "Ok"
    /\ ~serde_json_start(
           take_delimited_greedy("{", "}",
               header_line(tag_streaming(STORY_DATA, i), i).rest).out).ok

\* C2: when the parse stands at a StoryData block with balanced braces whose
\* content is not JSON, the story parse fails there: the next step is the
\* failure, and no passage is inserted for the block.
C2_MalformedStoryDataFails ==
    [][(Parsing /\ MalformedStoryData(input)) => (pc' = "Failed" /\ passages' = passages)]_vars

\* C3: parsing is all-or-nothing: when the block at the current offset is not
\* recognised, parse_story returns the failure value at once and no Story;
\* it neither continues nor ends in any other way.
C3_AllOrNothing ==
    [][(Parsing /\ parse_story_block(input).kind # "Ok")
           => (pc' = "Failed" /\ story' = None /\ input' = input)]_vars

\* C4: when a passage is parsed, the mapping afterwards holds exactly one
\* entry with that passage's title, and it is the passage just parsed (the
\* last one in document order).
C4_LastPassageOfTitleWins ==
    [][(Parsing /\ parse_story_block(input).kind = "Ok"
                /\ parse_story_block(input).out.block = "Passage")
           => \A k \in DOMAIN passages' :
                  Decoded(passages'[k].title)
                      = Decoded(parse_story_block(input).out.value.title)
                  => passages'[k] = parse_story_block(input).out.value]_vars

\* The end-to-end document: StoryTitle, StoryData with start "Start", and
\* the passage Start.
ExampleDocument == B_Title \o B_Data \o B_Start

ExampleStart ==
    Passage_new(<<"S", "t", "a", "r", "t">>, <<>>, None,
                <<text_node(<<"H", "i", " ">>),
                  link_node(<<"N", "e", "x", "t">>, <<"N", "e", "x", "t">>)>>)

\* The passage stored under the decoded start name, in its public view.
StartByName ==
    IF start = None THEN None
    ELSE IF escape_string_content(start[1]).s \in DOMAIN passages
         THEN Some(Passage_as_borrowed(
                       passage_as_str_to_blocks(original,
                           passages[escape_string_content(start[1]).s]),
                       original))
    ELSE None

\* C7: Story::start is the passage whose key equals the decoded start name
\* of StoryData, and none when no start name was given or no passage has it
\* (the parse still succeeds); the end-to-end document yields title "Test",
\* start passage "Start" and nodes [Text("Hi "), Link(Next, Next)].
C7_StartResolvedByName ==
    pc = "Done" =>
        /\ Story_start(TheStory) = StartByName
        /\ original = ExampleDocument =>
               /\ Story_title(TheStory) = Some(<<"T", "e", "s", "t">>)
               /\ Story_start(TheStory) = Some(ExampleStart)

\* The end-to-end document is parsed and its start passage is resolved.
C7_Witness ==
    /\ pc = "Done"
    /\ original = ExampleDocument
    /\ Story_start(TheStory) # None

\* The remainder of the line that follows the StoryTitle header line of i.
TitleLineAfter(i) ==
    LET line == Drop(i, Len(STORY_TITLE) + 1)
    IN  IF find_chars(line, 0, {LF, CR}) = -1 THEN line
        ELSE Take(line, find_chars(line, 0, {LF, CR}))

\* C8: a StoryTitle block (the header and a newline) sets the story title to
\* the remainder of the line after the header line, also when that line ends
\* at end of input; the blank lines after it are skipped.
C8_StoryTitleIsRestOfLine ==
    [][(Parsing /\ StartsWith(input, Append(STORY_TITLE, LF)))
           => /\ pc' = "Scanning"
              /\ title' = Some(TitleLineAfter(input))
              /\ (input' = <<>> \/ input'[1] \notin {LF, CR})]_vars

\* A line of s begins with ":: ".
HoldsHeaderLine(s) ==
    \/ StartsWith(s, <<":", ":", " ">>)
    \/ find_substring(s, 0, <<LF, ":", ":", " ">>) # -1

\* C17: no content node of a passage holds a line that begins with ":: ":
\* every such line after a passage header starts a new block; when a header
\* line is immediately followed by another header line, both passages are in
\* the mapping and the first has no content nodes.
C17_ContentHoldsNoHeader ==
    /\ \A k \in DOMAIN passages :
           \A n \in DOMAIN passages[k].content :
               ~HoldsHeaderLine(passages[k].content[n].text)
    /\ (pc = "Done" /\ original = B_Head \o B_Plain) =>
           /\ DOMAIN passages = {<<"h">>, <<"a", "b">>}
           /\ passages[<<"h">>].content = <<>>

IsSuffix(s, whole) == Len(s) <= Len(whole) /\ Drop(whole, Len(whole) - Len(s)) = s

\* Each Text node the node loop pushed took at least one character (a Link
\* node takes its brackets).
NodesTookInput ==
    \A k \in DOMAIN passages :
        \A n \in DOMAIN passages[k].content :
            passages[k].content[n].type = "Text" => passages[k].content[n].text # <<>>

StoryDataReplacesStart(b, field) ==
    (Parsing /\ StartsWith(input, b)) =>
        /\ pc' = "Scanning"
        /\ start' = field
        /\ input' = Drop(input, Len(b))
        /\ title' = title
        /\ passages' = passages

\* The loop stands at one of the well-formed StoryData blocks.
AtStoryData ==
    \/ StartsWith(input, B_Data)
    \/ StartsWith(input, B_DataEsc)
    \/ StartsWith(input, B_NoStart)
    \/ StartsWith(input, B_NumStart)

\* Documents in which a StoryData block naming the passage Start is followed
\* by the passage Start and by a later StoryData block without a string start.
StartThenNoStart ==
    {B_Data \o B_Start \o B_NoStart, B_Data \o B_Start \o B_NumStart,
     B_Data \o B_NoStart \o B_Start, B_Data \o B_NumStart \o B_Start}

\* C22: each StoryData block replaces the start name by that block's own
\* start field (none when the block has no string start) and leaves the
\* title and the passage mapping unchanged; no other block changes the
\* start name; the returned Story has a start name exactly when the loop
\* ended with one.  So when a StoryData block with a string start is
\* followed by a later one without, the Story has no start name and
\* Story::start returns none.
C22_StoryDataReplacesStart ==
    [][/\ StoryDataReplacesStart(B_Data, Some(<<"S", "t", "a", "r", "t">>))
       /\ StoryDataReplacesStart(B_DataEsc, Some(<<"a", BS, "b">>))
       /\ StoryDataReplacesStart(B_NoStart, None)
       /\ StoryDataReplacesStart(B_NumStart, None)
       /\ (Parsing /\ ~AtStoryData) => start' = start
       /\ (pc = "Scanning" /\ pc' = "Done") =>
              /\ start' = start
              /\ (story'[1].start = None) <=> (start = None)
              /\ start = None => Story_start(story'[1]) = None
              /\ original \in StartThenNoStart => start = None]_vars

\* A StoryData block naming the existing passage Start was followed by a
\* StoryData block without a string start, and the Story has no start.
C22_Witness ==
    /\ pc = "Done"
    /\ original = B_Data \o B_Start \o B_NumStart
    /\ <<"S", "t", "a", "r", "t">> \in DOMAIN TheStory.passages
    /\ TheStory.start = None
    /\ Story_start(TheStory) = None

----------------------------------------------------------------------------
(* SpecTitle: parse_title on every header start *)

MaxTitleLen == 4

TitleAlphabet == {"a", " ", BS, "[", "{", LF, CR}

HelloThere == <<":", ":", " ", "H", "e", "l", "l", "o", " ", "t", "h", "e", "r", "e",
                " ", "[", "t", "a", "g", "]">>

TitleInputs ==
    {<<":", ":", " ">> \o s : s \in Strings(TitleAlphabet, MaxTitleLen)} \cup {HelloThere}

InitTitle == Idle /\ pc = "call" /\ fin \in TitleInputs /\ fout = Fail("None")

CallParseTitle ==
    /\ pc = "call"
    /\ fout' = parse_title(fin)
    /\ pc' = "return"
    /\ UNCHANGED fin /\ IdleUnchanged

NextTitle == CallParseTitle

SpecTitle == InitTitle /\ [][NextTitle]_vars

\* The number of consecutive backslashes immediately before position i (1-based).
RECURSIVE BackslashesBefore(_, _)
BackslashesBefore(s, i) ==
    IF i > 1 /\ s[i - 1] = BS THEN 1 + BackslashesBefore(s, i - 1) ELSE 0

\* Position i is escaped: an odd number of backslashes precedes it.
Escaped(s, i) == BackslashesBefore(s, i) % 2 = 1

LineBreaks == {LF, CR}

\* C9: parse_title on ":: " ++ s returns the maximal run of words separated
\* by single spaces: title ++ remainder = s; the title is not empty, holds no
\* unescaped '[', '{' or line break, holds unescaped spaces only singly and
\* between two words, and does not cut an escape in two; the remainder is
\* empty or starts at an unescaped '[', '{' or line break, or at a space that
\* no word follows; parse_title fails exactly when no word starts s.
\* ":: Hello there [tag]" gives "Hello there" and " [tag]".
C9_TitleIsMaximalWordRun ==
    (pc = "return") =>
        LET s == Drop(fin, 3)
            t == fout.out
            n == Len(t)
        IN  /\ fout.kind \in {"Ok", "Err"}
            /\ (fout.kind = "Err") <=> (s = <<>> \/ s[1] \in WordStops)
            /\ (fout.kind = "Ok") =>
                /\ t \o fout.rest = s
                /\ n >= 1
                /\ \A i \in 1..n :
                    ~Escaped(s, i) =>
                        /\ s[i] \notin (LineBreaks \cup {"[", "{"})
                        /\ (s[i] = " ") => (i > 1 /\ i < n /\ s[i + 1] # " ")
                /\ (s[n] = BS /\ ~Escaped(s, n)) => n = Len(s)
                /\ (n < Len(s)) =>
                    /\ ~Escaped(s, n + 1)
                    /\ \/ s[n + 1] \in (LineBreaks \cup {"[", "{"})
                       \/ /\ s[n + 1] = " "
                          /\ (n + 2 > Len(s) \/ s[n + 2] \in WordStops)
            /\ (fin = HelloThere) =>
                /\ fout.kind = "Ok"
                /\ fout.out = <<"H", "e", "l", "l", "o", " ", "t", "h", "e", "r", "e">>
                /\ fout.rest = <<" ", "[", "t", "a", "g", "]">>

\* C9 witness: a title that keeps an escaped space or bracket and stops at
\* the space before a tag list.
C9_Witness ==
    /\ pc = "return"
    /\ fout.kind = "Ok"
    /\ \E i \in 1..Len(fout.out) : fout.out[i] \in {" ", "["} /\ Escaped(fout.out, i)
    /\ Len(fout.rest) >= 2
    /\ fout.rest[1] = " "
    /\ fout.rest[2] = "["

----------------------------------------------------------------------------
(* SpecEscape: escape_string_content on every span *)

MaxSpanLen == 5

EscapeAlphabet == {"a", "[", BS}

InitEscape ==
    Idle /\ pc = "call" /\ fin \in Strings(EscapeAlphabet, MaxSpanLen) /\ fout = Fail("None")

CallEscapeStringContent ==
    /\ pc = "call"
    /\ fout' = escape_string_content(fin)
    /\ pc' = "return"
    /\ UNCHANGED fin /\ IdleUnchanged

NextEscape == CallEscapeStringContent

SpecEscape == InitEscape /\ [][NextEscape]_vars

\* s without its escaping backslashes (the unescaped backslashes that have a
\* character after them); a last, unmatched backslash is dropped or kept.
RECURSIVE Unescape(_, _, _)
Unescape(s, i, dropUnmatched) ==
    IF i > Len(s) THEN <<>>
    ELSE IF s[i] = BS /\ ~Escaped(s, i) /\ (i < Len(s) \/ dropUnmatched)
         THEN Unescape(s, i + 1, dropUnmatched)
         ELSE <<s[i]>> \o Unescape(s, i + 1, dropUnmatched)

\* C6: for every span with at least one backslash, escape_string_content
\* returns the span with every escaping backslash removed and the character
\* after it kept, also when the last character is an unmatched backslash
\* (which may itself be kept or dropped), and never fails.
C6_DecodingRemovesEveryEscape ==
    (pc = "return" /\ \E k \in 1..Len(fin) : fin[k] = BS) =>
        fout.s \in {Unescape(fin, 1, TRUE), Unescape(fin, 1, FALSE)}

----------------------------------------------------------------------------
(* SpecLink: parse_link_node on every link "[[" body "]]" *)

MaxBodyLen == 4

LinkAlphabet == {"a", "|", "-", ">", "<", BS}

LinkInputs ==
    {<<"[", "[">> \o b \o <<"]", "]">> : b \in Strings(LinkAlphabet, MaxBodyLen)}

InitLink == Idle /\ pc = "call" /\ fin \in LinkInputs /\ fout = Fail("None")

CallParseLinkNode ==
    /\ pc = "call"
    /\ fout' = parse_link_node(fin)
    /\ pc' = "return"
    /\ UNCHANGED fin /\ IdleUnchanged

NextLink == CallParseLinkNode

SpecLink == InitLink /\ [][NextLink]_vars

\* The 1-based position of the first occurrence of sep in s that no backslash
\* immediately precedes; 0 when there is none.
FirstUnescaped(s, sep) ==
    LET hits == {i \in 1..Len(s) :
                    /\ i + Len(sep) - 1 <= Len(s)
                    /\ SubSeq(s, i, i + Len(sep) - 1) = sep
                    /\ (i = 1 \/ s[i - 1] # BS)}
    IN  IF hits = {} THEN 0 ELSE CHOOSE i \in hits : \A j \in hits : i <= j

Before(s, sep) == SubSeq(s, 1, FirstUnescaped(s, sep) - 1)
After(s, sep) == SubSeq(s, FirstUnescaped(s, sep) + Len(sep), Len(s))

\* The link a body stands for, by the fixed precedence '|', '->', '<-'.
LinkOf(body) ==
    IF FirstUnescaped(body, <<"|">>) # 0
    THEN link_node(Before(body, <<"|">>), After(body, <<"|">>))
    ELSE IF FirstUnescaped(body, <<"-", ">">>) # 0
    THEN link_node(Before(body, <<"-", ">">>), After(body, <<"-", ">">>))
    ELSE IF FirstUnescaped(body, <<"<", "-">>) # 0
    THEN link_node(After(body, <<"<", "-">>), Before(body, <<"<", "-">>))
    ELSE link_node(body, body)

\* C5: a link body is split at its first unescaped '|' as (text, target);
\* failing that at its first unescaped '->' as (text, target); failing that
\* at its first unescaped '<-' as (target, text); failing that the whole body
\* is both text and target.
C5_LinkBodyPrecedence ==
    (pc = "return" /\ fout.kind = "Ok") =>
        fout.out = LinkOf(SubSeq(fin, 3, Len(fin) - 2))

----------------------------------------------------------------------------
(* SpecPassage: parse_passage on every short header and body *)

MaxHeaderLen == 5

PassageAlphabet == {"a", " ", "[", "]", "{", "}", BS, LF}

PassageInputs == {<<":", ":", " ">> \o s : s \in Strings(PassageAlphabet, MaxHeaderLen)}

InitPassage == Idle /\ pc = "call" /\ fin \in PassageInputs /\ fout = Fail("None")

CallParsePassage ==
    /\ pc = "call"
    /\ fout' = parse_passage(fin)
    /\ pc' = "return"
    /\ UNCHANGED fin
    /\ IdleUnchanged

NextPassage == CallParsePassage

SpecPassage == InitPassage /\ [][NextPassage]_vars

\* C10: parse_passage fails (with a parse error) on a header that no
\* newline terminates, and on a header with an empty title.
C10_HeaderMustEndAtNewline ==
    (pc = "return") =>
        /\ (\A i \in 1..Len(fin) : fin[i] # LF) => fout.kind = "Err"
        /\ (Len(fin) = 3 \/ fin[4] \in WordStops) => fout.kind = "Err"

----------------------------------------------------------------------------
(* SpecLinks: LinkIterator (Passage::links) over every short node sequence *)

\* src/src/iter.rs: Link { text, target }
Link(node) == [text |-> node.text, target |-> node.target]

\* A mutant of LinkIterator::next: the first node is yielded whatever it is.
link_next_first(nodes) ==
    IF nodes = <<>> THEN [item |-> None, nodes |-> nodes]
    ELSE [item |-> Some(Link(nodes[1])), nodes |-> Drop(nodes, 1)]

\* LinkIterator::next on self.nodes: the item returned and self.nodes after.
RECURSIVE link_next(_)
link_next(nodes) ==
    IF nodes = <<>> THEN [item |-> None, nodes |-> nodes]
    ELSE IF nodes[1].type = "Link"
         THEN [item |-> Some(Link(nodes[1])), nodes |-> Drop(nodes, 1)]
    ELSE link_next(Drop(nodes, 1))

MaxNodes == 4

NodePool ==
    {text_node(<<"a">>), text_node(<<"b">>),
     link_node(<<"a">>, <<"b">>), link_node(<<"b">>, <<"b">>)}

RECURSIVE NodeSeqs(_)
NodeSeqs(n) ==
    IF n = 0 THEN {<<>>}
    ELSE NodeSeqs(n - 1) \cup
         {Append(s, c) : s \in {t \in NodeSeqs(n - 1) : Len(t) = n - 1}, c \in NodePool}

\* Passage::links: LinkIterator::new(&self.content); fout.out collects the
\* items the caller has received so far.
InitLinks ==
    /\ Idle
    /\ fin \in NodeSeqs(MaxNodes)
    /\ pc = "links"
    /\ fout = [kind |-> "New", rest |-> fin, out |-> <<>>]

\* One call of next(); fout.rest is self.nodes.
Yield(r) ==
    /\ fout' = [kind |-> IF r.item = None THEN "None" ELSE "Some",
                rest |-> r.nodes,
                out |-> fout.out \o r.item]
    /\ pc' = "links"

CallNext ==
    /\ pc = "links"
    /\ Yield(link_next(fout.rest))
    /\ UNCHANGED fin
    /\ IdleUnchanged

NextLinks == CallNext

SpecLinks == InitLinks /\ [][NextLinks]_vars

\* The Link nodes of a node sequence, as (text, target) pairs, in order.
RECURSIVE LinksOf(_)
LinksOf(nodes) ==
    IF nodes = <<>> THEN <<>>
    ELSE (IF nodes[1].type = "Link" THEN <<Link(nodes[1])>> ELSE <<>>)
             \o LinksOf(Drop(nodes, 1))

\* C11: the items LinkIterator yields are exactly the Link nodes of the
\* sequence as (text, target) pairs in their order (what was yielded so far
\* plus the links still ahead are the links of the sequence); a Text node is
\* never yielded; None is returned only when every link was yielded, and
\* after one None every later call returns None and yields nothing more.
C11_LinksYieldsLinkNodes ==
    /\ [](pc = "links" =>
            /\ fout.out \o LinksOf(fout.rest) = LinksOf(fin)
            /\ fout.kind = "None" => (fout.rest = <<>> /\ fout.out = LinksOf(fin)
                                          /\ Len(fout.out) = Len(LinksOf(fin))))
    /\ [][(pc = "links" /\ fout.kind = "None")
              => (fout'.kind = "None" /\ fout'.out = fout.out)]_vars

\* C11 witness: a sequence with a Text node between two Link nodes was
\* iterated to the end.
C11_Witness ==
    /\ pc = "links"
    /\ fout.kind = "None"
    /\ Len(fin) >= 3
    /\ fin[1].type = "Link" /\ fin[2].type = "Text" /\ fin[3].type = "Link"
    /\ Len(fout.out) >= 2

----------------------------------------------------------------------------
(* SpecSplit: split_escaped on every short input and the three separators *)

MaxSplitLen == 4

Separators == {<<"|">>, <<"-", ">">>, <<"<", "-">>}

InitSplit ==
    /\ Idle
    /\ pc = "call"
    /\ fin \in [input : Strings(LinkAlphabet, MaxSplitLen), pat : Separators]
    /\ fout = Fail("None")

\* Option<(&str, &str)> as a result record: out is before, rest is after.
SplitResult(o) ==
    IF o = None THEN [kind |-> "NotFound", rest |-> <<>>, out |-> <<>>]
    ELSE [kind |-> "Found", rest |-> o[1][2], out |-> o[1][1]]

CallSplitEscaped ==
    /\ pc = "call"
    /\ fout' = SplitResult(split_escaped(fin.input, fin.pat))
    /\ pc' = "return"
    /\ UNCHANGED fin
    /\ IdleUnchanged

NextSplit == CallSplitEscaped

SpecSplit == InitSplit /\ [][NextSplit]_vars

\* C12: split_escaped(input, sep) splits at the first occurrence of sep that
\* no backslash immediately precedes, giving (before, after) with
\* before ++ sep ++ after = input, and finds nothing only when every
\* occurrence of sep is immediately preceded by a backslash.
C12_SplitAtFirstUnescaped ==
    (pc = "return") =>
        IF FirstUnescaped(fin.input, fin.pat) = 0
        THEN fout.kind = "NotFound"
        ELSE /\ fout.kind = "Found"
             /\ fout.out = Before(fin.input, fin.pat)
             /\ fout.rest = After(fin.input, fin.pat)
             /\ fout.out \o fin.pat \o fout.rest = fin.input

----------------------------------------------------------------------------
(* SpecDelimited: take_delimited_greedy('{', '}') on every short input *)

MaxDelimLen == 5

DelimAlphabet == {"{", "}", BS, "a"}

InitDelimited ==
    /\ Idle
    /\ pc = "call"
    /\ fin \in Strings(DelimAlphabet, MaxDelimLen)
    /\ fout = Fail("None")

CallTakeDelimitedGreedy ==
    /\ pc = "call"
    /\ fout' = take_delimited_greedy("{", "}", fin)
    /\ pc' = "return"
    /\ UNCHANGED fin
    /\ IdleUnchanged

NextDelimited == CallTakeDelimitedGreedy

SpecDelimited == InitDelimited /\ [][NextDelimited]_vars

\* The length of the shortest prefix of s at whose end the depth is back at
\* zero, scanning from offset i with the given depth: +1 per '{', -1 per '}',
\* a backslash and the character after it being skipped as one unit; 0 when
\* the input is exhausted first.
RECURSIVE BalancedEnd(_, _, _)
BalancedEnd(s, i, depth) ==
    IF i >= Len(s) THEN 0
    ELSE IF s[i + 1] = BS THEN BalancedEnd(s, i + 2, depth)
    ELSE IF s[i + 1] = "{" THEN BalancedEnd(s, i + 1, depth + 1)
    ELSE IF s[i + 1] = "}" THEN (IF depth = 1 THEN i + 1 ELSE BalancedEnd(s, i + 1, depth - 1))
    ELSE BalancedEnd(s, i + 1, depth)

StartsBlock(s) == s # <<>> /\ s[1] = "{"

\* C13: on an input that starts a block whose depth never returns to zero
\* before the input is exhausted, take_delimited_greedy returns the failure
\* value: neither a match nor an abnormal termination, also when the last
\* character is a backslash.
C13_UnbalancedBlockFails ==
    (pc = "return" /\ StartsBlock(fin) /\ BalancedEnd(fin, 0, 0) = 0) => fout.kind = "Err"

\* C14: on an input that starts with '{' and has a balanced prefix, the match
\* is the shortest prefix at whose end the depth first returns to zero (outer
\* delimiters and nested pairs included), the remainder is the rest of the
\* input, unconsumed, and an escaped character never changes the depth.
C14_MatchIsShortestBalancedPrefix ==
    (pc = "return" /\ StartsBlock(fin) /\ BalancedEnd(fin, 0, 0) > 0) =>
        /\ fout.kind = "Ok"
        /\ fout.out = Take(fin, BalancedEnd(fin, 0, 0))
        /\ fout.rest = Drop(fin, BalancedEnd(fin, 0, 0))
        /\ fout.out \o fout.rest = fin

\* C14 witness: a match that holds an escaped brace and leaves a remainder.
C14_Witness ==
    /\ pc = "return"
    /\ fout.kind = "Ok"
    /\ \E i \in 1..Len(fout.out) : fout.out[i] \in {"{", "}"} /\ Escaped(fout.out, i)
    /\ fout.rest # <<>>

----------------------------------------------------------------------------
(* SpecContent: find_content_block on every short input *)

MaxContentLen == 7

ContentAlphabet == {"a", ":", LF, CR}

InitContent ==
    /\ Idle
    /\ pc = "call"
    /\ fin \in Strings(ContentAlphabet, MaxContentLen)
    /\ fout = Fail("None")

CallFindContentBlock ==
    /\ pc = "call"
    /\ fout' = find_content_block(fin)
    /\ pc' = "return"
    /\ UNCHANGED fin
    /\ IdleUnchanged

NextContent == CallFindContentBlock

SpecContent == InitContent /\ [][NextContent]_vars

\* The offsets of s at which a newline ("\n" or "\r\n") is immediately
\* followed by "::".
Boundaries(s) ==
    {n \in 0..Len(s) :
        \/ StartsWith(Drop(s, n), <<LF, ":", ":">>)
        \/ StartsWith(Drop(s, n), <<CR, LF, ":", ":">>)}

EarliestBoundary(s) == CHOOSE n \in Boundaries(s) : \A m \in Boundaries(s) : n <= m

\* C15: find_content_block returns (content, remainder) with
\* content ++ remainder = input, content being everything before the
\* earliest offset at which a newline is immediately followed by "::",
\* whatever line endings the input mixes; without such a boundary content
\* is the whole input and the remainder is empty.
C15_ContentEndsAtEarliestBoundary ==
    (pc = "return") =>
        /\ fout.kind = "Ok"
        /\ fout.out \o fout.rest = fin
        /\ IF Boundaries(fin) = {} THEN fout.out = fin /\ fout.rest = <<>>
           ELSE fout.out = Take(fin, EarliestBoundary(fin))

----------------------------------------------------------------------------
(* SpecNodes: the node loop of parse_passage on every short content block *)

MaxTokLen == 7

NodeAlphabet == {"a", "[", "]", BS}

InitNodes ==
    /\ Idle
    /\ pc = "call"
    /\ fin \in Strings(NodeAlphabet, MaxTokLen)
    /\ fout = Fail("None")

\* while !content.is_empty() { parse_node(content)?; nodes.push(node) }
CallParseNodes ==
    /\ pc = "call"
    /\ fout' = parse_nodes(fin, <<>>)
    /\ pc' = "return"
    /\ UNCHANGED fin
    /\ IdleUnchanged

NextNodes == CallParseNodes

SpecNodes == InitNodes /\ [][NextNodes]_vars

Opener == <<"[", "[">>

\* The nodes of a content block in document order: a Text node runs up to
\* the next opener that no backslash precedes, or to the end of the content;
\* at such an opener stands a link, read as parse_link_node reads it.
RECURSIVE Tokens(_, _)
Tokens(s, nodes) ==
    IF s = <<>> THEN Ok(<<>>, nodes)
    ELSE IF FirstUnescaped(s, Opener) = 0 THEN Ok(<<>>, Append(nodes, text_node(s)))
    ELSE IF FirstUnescaped(s, Opener) > 1
         THEN Tokens(Drop(s, FirstUnescaped(s, Opener) - 1),
                     Append(nodes, text_node(Take(s, FirstUnescaped(s, Opener) - 1))))
    ELSE IF parse_link_node(s).kind # "Ok" THEN parse_link_node(s)
    ELSE Tokens(parse_link_node(s).rest, Append(nodes, parse_link_node(s).out))

\* C16: for a non-empty content block whose unescaped openers all start a
\* link, the nodes are, in document order, the Text spans that end exactly
\* at the next unescaped '[[' (or at the end of the content) and one Link
\* per unescaped '[[body]]'; an escaped opener stays inside a Text node and
\* does not change how the unescaped openers are recognised.
C16_TextEndsAtNextUnescapedOpener ==
    (pc = "return" /\ fin # <<>> /\ Tokens(fin, <<>>).kind = "Ok") =>
        fout = Tokens(fin, <<>>)

\* Node k of a node sequence is the last one, or a Link follows it.
LinkOrEndFollows(nodes, k) == k = Len(nodes) \/ nodes[k + 1].type = "Link"

\* C21: in every successfully parsed content block no Text node is empty
\* and no two Text nodes are adjacent: a Text node is always followed by a
\* Link node or by the end of the content.
C21_TextNodesAlternate ==
    (pc = "return" /\ fout.kind = "Ok") =>
        \A k \in 1..Len(fout.out) :
            fout.out[k].type = "Text" =>
                /\ fout.out[k].text # <<>>
                /\ LinkOrEndFollows(fout.out, k)

\* A block parsed into Text, Link, Text.
C21_Witness ==
    /\ pc = "return"
    /\ fout.kind = "Ok"
    /\ Len(fout.out) = 3
    /\ fout.out[1].type = "Text"
    /\ fout.out[2].type = "Link"
    /\ fout.out[3].type = "Text"

----------------------------------------------------------------------------
(* Spec: the text values a parsed Story exposes *)

\* value is raw with every escaping backslash removed, once (an unmatched
\* last backslash kept or dropped).
DecodedOnce(raw, value) == value \in {Unescape(raw, 1, TRUE), Unescape(raw, 1, FALSE)}

\* The public view of the passage stored under key k.
PublicPassage(k) == Passage_as_borrowed(TheStory.passages[k], TheStory.content)

\* C19: every text value of a parsed Story (story title, passage title, tag,
\* metadata, Text node, Link text and target) is the escape decoding,
\* applied exactly once, of the raw span recognised in the source.
C19_ValuesDecodedOnce ==
    pc = "Done" =>
        /\ title # None => DecodedOnce(title[1], Story_title(TheStory)[1])
        /\ \A k \in DOMAIN passages :
               /\ DecodedOnce(passages[k].title, PublicPassage(k).title)
               /\ \A n \in DOMAIN passages[k].tags :
                      DecodedOnce(passages[k].tags[n], PublicPassage(k).tags[n])
               /\ passages[k].metadata # None =>
                      DecodedOnce(passages[k].metadata[1], PublicPassage(k).metadata[1])
               /\ \A n \in DOMAIN passages[k].content :
                      /\ DecodedOnce(passages[k].content[n].text,
                                     PublicPassage(k).content[n].text)
                      /\ DecodedOnce(passages[k].content[n].target,
                                     PublicPassage(k).content[n].target)

----------------------------------------------------------------------------
(* SpecBorrowed: TextBlock::borrowed on slices of a buffer and foreign strings *)

MaxBufferLen == 3

BufferAlphabet == {"a", BS}

\* Where the original buffer lies; a foreign string lies below or above it.
BufferAddress == 10

ForeignAddresses == {0, 20}

\* The slices of the buffer: every range begin..end of it.
SlicesOf(buffer) ==
    {Slice(buffer.ptr + b, SubSeq(buffer.s, b + 1, e)) :
        b \in 0..Len(buffer.s), e \in 0..Len(buffer.s)}

BorrowedInputs ==
    {[original |-> o, substring |-> sub] :
        o \in {Slice(BufferAddress, s) : s \in Strings(BufferAlphabet, MaxBufferLen)},
        sub \in {Slice(p, s) : p \in ForeignAddresses, s \in Strings(BufferAlphabet, MaxBufferLen)}}
    \cup
    UNION {{[original |-> o, substring |-> sub] : sub \in SlicesOf(o)} :
              o \in {Slice(BufferAddress, s) : s \in Strings(BufferAlphabet, MaxBufferLen)}}

InitBorrowed ==
    /\ Idle
    /\ pc = "call"
    /\ fin \in BorrowedInputs
    /\ fout = Owned(<<>>)

CallTextBlockBorrowed ==
    /\ pc = "call"
    /\ fout' = TextBlock_borrowed_at(fin.original, fin.substring)
    /\ pc' = "return"
    /\ UNCHANGED fin
    /\ IdleUnchanged

NextBorrowed == CallTextBlockBorrowed

SpecBorrowed == InitBorrowed /\ [][NextBorrowed]_vars

LiesInside(substring, original_) ==
    /\ substring.ptr >= original_.ptr
    /\ substring.ptr + Len(substring.s) <= original_.ptr + Len(original_.s)

\* C20: TextBlock::borrowed yields Borrowed(range) exactly when the substring
\* holds no backslash and lies inside original; the range is then in bounds
\* of original and as_str(original) is the substring unchanged; otherwise it
\* yields an Owned copy.
C20_BorrowedIffPlainSlice ==
    (pc = "return") =>
        /\ fout.kind \in {"Borrowed", "Owned"}
        /\ (fout.kind = "Borrowed") <=>
               /\ \A i \in 1..Len(fin.substring.s) : fin.substring.s[i] # BS
               /\ LiesInside(fin.substring, fin.original)
        /\ (fout.kind = "Borrowed") =>
               /\ 0 <= fout.begin
               /\ fout.begin <= fout.end
               /\ fout.end <= Len(fin.original.s)
               /\ as_str(fout, fin.original.s) = fin.substring.s

----------------------------------------------------------------------------
(* SpecOpeners: parse_story on documents of one passage whose content is
   any short text without backslashes.  Such a document holds no
   StoryTitle or StoryData block and no metadata, so the arms of the loop
   that can be taken are the Passage arm and the error return. *)

MaxOpenerLen == 7

OpenerAlphabet == {"a", "[", "]", LF}

\* the header line of the passage
OpenerHeader == <<":", ":", " ", "t", LF>>

InitOpeners ==
    /\ original \in {OpenerHeader \o c : c \in Strings(OpenerAlphabet, MaxOpenerLen)}
    /\ input = original
    /\ pc = "Scanning"
    /\ title = None
    /\ start = None
    /\ passages = <<>>
    /\ story = None
    /\ fin = <<>>
    /\ fout = Fail("None")

NextOpeners ==
    \/ BlockPassage
    \/ BlockError
    \/ Finish

SpecOpeners == InitOpeners /\ [][NextOpeners]_vars

\* The content of the passage of the document.
OpenerContent == Drop(original, Len(OpenerHeader))

\* Reading s from the left, some '[[' is not followed by a non-empty body
\* free of ']' and line breaks and then by ']]'.
RECURSIVE HasBadOpener(_)
HasBadOpener(s) ==
    LET p == find_substring(s, 0, <<"[", "[">>)
        close == PlainRun(s, p + 2, {"]", LF, CR})
    IN  IF p = -1 THEN FALSE
        ELSE IF close = p + 2 \/ ~StartsWith(Drop(s, close), <<"]", "]">>) THEN TRUE
        ELSE HasBadOpener(Drop(s, close + 2))

\* C23: for a passage content without backslashes, a '[[' the scan arrives
\* at (the first one, or the first one after a complete link) that is not
\* followed by a non-empty body free of ']' and line breaks and then ']]'
\* makes the whole story parse fail: the step taken is the error return, no
\* passage is stored and no Story is built, so the opener is never kept as
\* text.  Brackets inside the body of a complete link belong to that body.
C23_BadOpenerFailsStory ==
    [][(Parsing /\ HasBadOpener(OpenerContent))
           => (pc' = "Failed" /\ passages' = passages /\ story' = None)]_vars

\* The parse failed on a content whose opener has a body and a later ']]'
\* but a single ']' in between.
C23_Witness ==
    /\ pc = "Failed"
    /\ story = None
    /\ OpenerContent = <<"[", "[", "a", "]", "a", "]", "]">>

----------------------------------------------------------------------------
(* SpecOwned: parse_story on documents of well-formed blocks, then
   Story::into_owned and Story::iter on the Story returned.  fin holds the
   keys the iterator has not visited yet, fout the passages it yielded. *)

MaxOwnedBlocks == 3

OwnedPool == {B_Title, B_Data, B_DataEsc, B_Start, B_Esc, B_Plain, B_Tagged}

RECURSIVE OwnedDocs(_)
OwnedDocs(n) == IF n = 0 THEN {<<>>} ELSE {d \o b : d \in OwnedDocs(n - 1), b \in OwnedPool}

InitOwned ==
    /\ original \in UNION {OwnedDocs(n) : n \in 0..MaxOwnedBlocks}
    /\ input = original
    /\ pc = "Scanning"
    /\ title = None
    /\ start = None
    /\ passages = <<>>
    /\ story = None
    /\ fin = {}
    /\ fout = <<>>

\* s.into_owned(): the Story<&str> is consumed, the Story<String> returned.
IntoOwned ==
    /\ pc = "Done"
    /\ story' = Some(Story_into_owned(TheStory))
    /\ pc' = "Owned"
    /\ UNCHANGED <<original, input, title, start, passages, fin, fout>>

\* story.iter() on the borrowed or on the owned Story
IterNew ==
    /\ pc \in {"Done", "Owned"}
    /\ fin' = Story_iter(TheStory)
    /\ fout' = <<>>
    /\ pc' = IF pc = "Done" THEN "DoneIter" ELSE "OwnedIter"
    /\ UNCHANGED <<original, input, title, start, passages, story>>

\* Iter::next while a key is left: the keys come in the HashMap's order,
\* which is any order; the item is get_passage(name).
IterNext ==
    /\ pc \in {"DoneIter", "OwnedIter"}
    /\ \E name \in fin :
           /\ fin' = fin \ {name}
           /\ IF Story_get_passage(TheStory, name) = None
              THEN fout' = fout /\ pc' = IF pc = "DoneIter" THEN "DoneIterEnd" ELSE "OwnedIterEnd"
              ELSE fout' = Append(fout, Story_get_passage(TheStory, name)[1]) /\ pc' = pc
    /\ UNCHANGED <<original, input, title, start, passages, story>>

\* Iter::next when the keys are exhausted: None
IterEnd ==
    /\ pc \in {"DoneIter", "OwnedIter"}
    /\ fin = {}
    /\ pc' = IF pc = "DoneIter" THEN "DoneIterEnd" ELSE "OwnedIterEnd"
    /\ UNCHANGED <<original, input, title, start, passages, story, fin, fout>>

NextOwned ==
    \/ BlockTitle
    \/ BlockStoryData
    \/ BlockPassage
    \/ Finish
    \/ IntoOwned
    \/ IterNew
    \/ IterNext
    \/ IterEnd

SpecOwned == InitOwned /\ [][NextOwned]_vars

\* Names to look up: every key of the mapping and names that are no key.
LookupNames == (DOMAIN passages) \cup {<<>>, <<"z">>, <<"N", "e", "x", "t">>}

\* The two stories answer title, start and get_passage alike.
SameAnswers(s, t) ==
    /\ Story_title(s) = Story_title(t)
    /\ Story_start(s) = Story_start(t)
    /\ \A name \in LookupNames : Story_get_passage(s, name) = Story_get_passage(t, name)

\* The public view of the passage parsed under key k, resolved against the
\* document.
ParsedPassage(k) ==
    Passage_as_borrowed(passage_as_str_to_blocks(original, passages[k]), original)

\* items holds the passage of every key of the mapping, each once.
EachPassageOnce(items) ==
    /\ Len(items) = Cardinality(DOMAIN passages)
    /\ \A k \in DOMAIN passages :
           Cardinality({i \in 1..Len(items) : items[i] = ParsedPassage(k)}) = 1

\* C24: the Story<String> that into_owned returns answers title(), start()
\* and get_passage(name) for every name as the Story<&str> did, and iter()
\* on either yields each passage of the mapping exactly once, so both yield
\* the same set of passages.
C24_IntoOwnedPreservesStory ==
    [][/\ (pc = "Done" /\ pc' = "Owned") => SameAnswers(story[1], story'[1])
       /\ pc' \in {"DoneIterEnd", "OwnedIterEnd"} => EachPassageOnce(fout')]_vars

\* iter() on the owned Story of a document with a resolved start and two
\* passages came to its end.
C24_Witness ==
    /\ pc = "OwnedIterEnd"
    /\ Story_start(TheStory) # None
    /\ Len(fout) = 2

====
